---- MODULE Spec2Model ----
\* A model of the record! macro of src/lib.rs: the two macro_rules! rules,
\* the matching of an invocation's token stream against their matchers, the
\* transcription of the matched rule, and the code the expansion generates
\* (the struct, its constructor and the extra impl block).
EXTENDS FiniteSets, Integers, Sequences, TLC

\* ---------------------------------------------------------------- bounds
\* The longest field list of a generated descriptor.
MaxFields == 3
\* The largest number of member definitions in a behaviour block.
MaxBlock == 2
\* The longest field list of the invocations that are damaged (one token
\* deleted or inserted) to obtain malformed invocations.
MaxMutFields == 1
\* The number of invocations expanded one after the other in one compilation.
MaxExpansions == 3
\* A cap on the number of rules one invocation may fire (the compiler's
\* recursion limit, scaled down).
MaxDepth == 4

\* ---------------------------------------------------------------- tokens
\* A token tree of an invocation: an identifier, a comma, a colon, a
\* brace-delimited group (with the token trees it holds) or an already parsed
\* type handed on by a transcriber.
Tok(k, s, b) == [k |-> k, s |-> s, b |-> b]
Ident(s) == Tok("ident", s, <<>>)
Comma == Tok(",", "", <<>>)
Colon == Tok(":", "", <<>>)
Group(b) == Tok("{}", "", b)
NtTy(t) == Tok("ty", t, <<>>)

\* The fragment $x:ident matches exactly one identifier token.
IsIdent(t) == t.k = "ident"
\* The fragment $t:ty matches a type: here a one-segment path written as an
\* identifier, or a type parsed by an earlier expansion.
IsTy(t) == t.k \in {"ident", "ty"}
\* The type a token matched by $t:ty denotes.
ParseTy(t) == t.s
IsGroup(t) == t.k = "{}"

\* ------------------------------------------------------- the input space
Names == {"Card"}
FieldNames == {"name", "id", "x"}
Types == {"String", "u8"}
Field(n, t) == [name |-> n, ty |-> t]
FieldPairs == {Field(n, t) : n \in FieldNames, t \in Types}

\* A member definition, as the generated code and the block hold it: its
\* visibility, its name, its parameters, its return type, the fields a
\* constructor body initialises and the fields a method body reads.
Member(v, n, p, r, i, rd) ==
    [vis |-> v, name |-> n, params |-> p, ret |-> r, inits |-> i, reads |-> rd]
SelfParam == Field("self", "Self")
\* fn become_a_string_to_work(self) -> String { format!("{}, {}", self.name, self.id) }
BecomeAString ==
    Member("", "become_a_string_to_work", <<SelfParam>>, "String", <<>>, <<"name", "id">>)
\* pub fn print(self) -> String { format!("{}", self.id) }
PubPrint == Member("pub", "print", <<SelfParam>>, "String", <<>>, <<"id">>)
BlockMembers == {BecomeAString, PubPrint}

SeqsUpTo(S, n) == UNION {[1..k -> S] : k \in 0..n}
Injective(s) == \A i, j \in 1..Len(s) : s[i] = s[j] => i = j
\* Field lists without a repeated name (a repeated name is rejected by the
\* compiler in the generated struct, not by the macro).
FieldLists ==
    {fs \in SeqsUpTo(FieldPairs, MaxFields) :
        Injective([k \in 1..Len(fs) |-> fs[k].name])}
Blocks == {b \in SeqsUpTo(BlockMembers, MaxBlock) : Injective(b)}

\* A descriptor: the name, the fields, and the block, if any.
Descriptors ==
    [i : Names, fields : FieldLists, hasBlock : {TRUE}, block : Blocks]
    \cup [i : Names, fields : FieldLists, hasBlock : {FALSE}, block : {<<>>}]

RECURSIVE RenderFields(_)
\* f1: T1, f2: T2, ... as tokens.
RenderFields(fs) ==
    IF fs = <<>> THEN <<>>
    ELSE LET h == <<Ident(Head(fs).name), Colon, Ident(Head(fs).ty)>>
         IN IF Len(fs) = 1 THEN h ELSE h \o <<Comma>> \o RenderFields(Tail(fs))

\* The token stream a user writes for a descriptor.
Render(d) ==
    <<Ident(d.i), Comma>> \o RenderFields(d.fields)
        \o (IF d.hasBlock THEN <<Comma, Group(d.block)>> ELSE <<>>)

WellFormed == {Render(d) : d \in Descriptors}

Delete(ts, p) == SubSeq(ts, 1, p - 1) \o SubSeq(ts, p + 1, Len(ts))
Insert(ts, p, t) == SubSeq(ts, 1, p - 1) \o <<t>> \o SubSeq(ts, p, Len(ts))
Stray == {Comma, Colon, Ident("id"), Group(<<>>), Group(<<BecomeAString>>)}
MutBase == {Render(d) : d \in {e \in Descriptors : Len(e.fields) <= MaxMutFields}}
\* Invocations one token away from a well-formed one.
Damaged ==
    UNION {{Delete(ts, p) : p \in 1..Len(ts)} : ts \in MutBase}
    \cup UNION {{Insert(ts, p, t) : p \in 1..(Len(ts) + 1), t \in Stray} : ts \in MutBase}

Invocations == WellFormed \cup Damaged

\* --------------------------------------------------------- the matchers
RECURSIVE RepMore(_, _, _)
\* The ways $($var:ident: $t:ty),* matches one or more repetitions starting
\* at position p, after the repetitions of acc: the fields bound and the
\* position of the first token after the repetition.
RepMore(ts, p, acc) ==
    IF p + 2 <= Len(ts) /\ IsIdent(ts[p]) /\ ts[p + 1] = Colon /\ IsTy(ts[p + 2])
    THEN LET acc2 == Append(acc, Field(ts[p].s, ParseTy(ts[p + 2])))
         IN {[fields |-> acc2, next |-> p + 3]}
            \cup (IF p + 3 <= Len(ts) /\ ts[p + 3] = Comma
                  THEN RepMore(ts, p + 4, acc2) ELSE {})
    ELSE {}

\* Rep with + written for *: at least one repetition.
RepOneOrMore(ts, p) == RepMore(ts, p, <<>>)

\* $($var:ident: $t:ty),* : zero repetitions, or one or more.
Rep(ts, p) == {[fields |-> <<>>, next |-> p]} \cup RepMore(ts, p, <<>>)

\* ($i:ident, $($var:ident: $t:ty),*, { $($impl:tt)* }) : the bindings of
\* every way the matcher of the first rule matches the whole of ts.
Match1(ts) ==
    IF Len(ts) >= 2 /\ IsIdent(ts[1]) /\ ts[2] = Comma
    THEN {[i |-> ts[1].s, fields |-> r.fields, impl |-> ts[r.next + 1].b] :
            r \in {q \in Rep(ts, 3) : /\ q.next + 1 = Len(ts)
                                      /\ ts[q.next] = Comma
                                      /\ IsGroup(ts[q.next + 1])}}
    ELSE {}

\* Match2 without the end-of-input test: tokens after the fields are ignored.
Match2Prefix(ts) ==
    IF Len(ts) >= 2 /\ IsIdent(ts[1]) /\ ts[2] = Comma
    THEN {[i |-> ts[1].s, fields |-> r.fields, impl |-> <<>>] :
            r \in {q \in Rep(ts, 3) : q.next <= Len(ts) + 1}}
    ELSE {}

\* ($i:ident, $($var:ident: $t:ty),*) : the same for the second rule.
Match2(ts) ==
    IF Len(ts) >= 2 /\ IsIdent(ts[1]) /\ ts[2] = Comma
    THEN {[i |-> ts[1].s, fields |-> r.fields, impl |-> <<>>] :
            r \in {q \in Rep(ts, 3) : q.next = Len(ts) + 1}}
    ELSE {}

\* ------------------------------------------------------ the transcribers
Item(k, v, n, fs, ms) == [kind |-> k, vis |-> v, name |-> n, fields |-> fs, members |-> ms]
\* PubField with the pub left off the fields of one type.
FieldVisByType(f) ==
    [vis |-> IF f.ty = "u8" THEN "" ELSE "pub", name |-> f.name, ty |-> f.ty]

PubField(f) == [vis |-> "pub", name |-> f.name, ty |-> f.ty]

\* StructItem declaring the fields in the reverse order.
StructItemReversed(m) ==
    Item("struct", "pub", m.i,
         [k \in 1..Len(m.fields) |-> PubField(m.fields[Len(m.fields) + 1 - k])], <<>>)

\* pub struct $i { $(pub $var: $t),* }
StructItem(m) ==
    Item("struct", "pub", m.i, [k \in 1..Len(m.fields) |-> PubField(m.fields[k])], <<>>)

\* NewFn taking its parameters in the reverse order.
NewFnReversed(m) ==
    Member("pub", "new", [k \in 1..Len(m.fields) |-> m.fields[Len(m.fields) + 1 - k]],
           "Self", [k \in 1..Len(m.fields) |-> m.fields[k].name], <<>>)

\* pub fn new($($var: $t),*) -> Self { Self { $($var),* } }
NewFn(m) ==
    Member("pub", "new", m.fields, "Self",
           [k \in 1..Len(m.fields) |-> m.fields[k].name], <<>>)

\* impl $i { pub fn new ... }
CtorImpl(m) == Item("impl", "", m.i, <<>>, <<NewFn(m)>>)

\* BlockImpl dropping the last definition of the block.
BlockImplDropsLast(m) ==
    Item("impl", "", m.i, <<>>, SubSeq(m.impl, 1, Len(m.impl) - 1))

\* BlockImpl repeating the constructor in front of the block's definitions.
BlockImplWithNew(m) ==
    Item("impl", "", m.i, <<>>,
         <<Member("pub", "new", m.fields, "Self",
                  [k \in 1..Len(m.fields) |-> m.fields[k].name], <<>>)>> \o m.impl)

\* impl $i { $($impl)* }
BlockImpl(m) == Item("impl", "", m.i, <<>>, m.impl)

\* The right-hand side of the first rule: the three items.
Transcribe1(m) == <<StructItem(m), CtorImpl(m), BlockImpl(m)>>

RECURSIVE TranscribeFields(_)
\* $($var: $t),* : the matched fields, each type as the parsed fragment.
TranscribeFields(fs) ==
    IF fs = <<>> THEN <<>>
    ELSE LET h == <<Ident(Head(fs).name), Colon, NtTy(Head(fs).ty)>>
         IN IF Len(fs) = 1 THEN h ELSE h \o <<Comma>> \o TranscribeFields(Tail(fs))

RECURSIVE Reverse(_)
Reverse(q) == IF q = <<>> THEN <<>> ELSE Append(Reverse(Tail(q)), Head(q))

\* Transcribe2 handing the fields on in the reverse order.
Transcribe2Reversed(m) ==
    <<Ident(m.i), Comma>> \o TranscribeFields(Reverse(m.fields)) \o <<Comma, Group(<<>>)>>

\* Transcribe2 without the trailing empty block.
Transcribe2NoBlock(m) == <<Ident(m.i), Comma>> \o TranscribeFields(m.fields)

\* The right-hand side of the second rule: record!($i, $($var: $t),*, {});
\* the token stream of the invocation it makes.
Transcribe2(m) ==
    <<Ident(m.i), Comma>> \o TranscribeFields(m.fields) \o <<Comma, Group(<<>>)>>

\* ------------------------------------------------------------- the state
VARIABLES
    call,     \* the invocation being expanded, as written
    input,    \* the token stream now matched against the rules
    pc,       \* "idle", "rule1", "rule2", "expanded" or "rejected"
    items,    \* the items the expansion has emitted
    fired,    \* the rules that have matched for this invocation, in order
    unit,     \* the finished expansions of the compilation, in order
    inst,     \* the instance the generated constructor returned, if any
    result    \* what the last call of a block method returned

vars == <<call, input, pc, items, fired, unit, inst, result>>

NoInst == [made |-> FALSE, fields |-> <<>>, args |-> <<>>, val |-> <<>>]
NoResult == [called |-> FALSE, method |-> "", val |-> ""]

Init ==
    /\ call = <<>>
    /\ input = <<>>
    /\ pc = "idle"
    /\ items = <<>>
    /\ fired = <<>>
    /\ unit = <<>>
    /\ inst = NoInst
    /\ result = NoResult

\* ------------------------------------------------------ the generated code
ValuesOf(ty) == IF ty = "String" THEN {"Robert", "12345"} ELSE {"0", "255"}

NameSeq(fs) == [k \in 1..Len(fs) |-> fs[k].name]
Range(s) == {s[k] : k \in 1..Len(s)}

\* The generated fn new of an expansion.
CtorOf(its) == its[2].members[1]

\* The items type-check: no field is declared twice, and the constructor
\* body initialises exactly the declared fields from its parameters.
Compiles(its) ==
    /\ Len(its) = 3
    /\ Injective(NameSeq(its[1].fields))
    /\ Injective(NameSeq(CtorOf(its).params))
    /\ Injective(CtorOf(its).inits)
    /\ Range(CtorOf(its).inits) = Range(NameSeq(its[1].fields))
    /\ Range(CtorOf(its).inits) \subseteq Range(NameSeq(CtorOf(its).params))

\* The argument bound to the parameter called n.
Lookup(params, args, n) == args[CHOOSE j \in 1..Len(params) : params[j].name = n]

\* Self { $($var),* } : every field takes the value of the local variable of
\* its own name; the instance lists the values in declaration order.
New(its, args) ==
    [k \in 1..Len(its[1].fields) |->
        Lookup(CtorOf(its).params, args, its[1].fields[k].name)]

\* The argument tuples the constructor accepts.
ArgTuples(params) ==
    {a \in [1..Len(params) -> UNION {ValuesOf(t) : t \in Types}] :
        \A k \in 1..Len(params) : a[k] \in ValuesOf(params[k].ty)}

RECURSIVE Join(_)
\* format!("{}, {}", ...) over the values read.
Join(vs) ==
    IF vs = <<>> THEN ""
    ELSE IF Len(vs) = 1 THEN vs[1] ELSE vs[1] \o ", " \o Join(Tail(vs))

\* The value of self.n in an instance.
FieldOf(in, n) == in.val[CHOOSE k \in 1..Len(in.fields) : in.fields[k] = n]

\* The methods of the type: the members of its impl blocks that take self.
Methods(its) ==
    {m \in Range(its[2].members) \cup Range(its[3].members) :
        m.params # <<>> /\ m.params[1] = SelfParam}

\* -------------------------------------------------------------- actions
\* The invocation every compilation starts with: record!(Card, name: String, id: String).
Few ==
    {Render([i |-> "Card", fields |-> <<Field("name", "String"), Field("id", "String")>>,
             hasBlock |-> FALSE, block |-> <<>>])}

\* The invocations the next expansion of the compilation is drawn from.
Pool ==
    IF Len(unit) = 1 THEN Invocations
    ELSE Few \cup {unit[k].call : k \in 1..Len(unit)}

Finished(c, st, its) == [call |-> c, status |-> st, items |-> its]

\* record!(...) is met in the source: its expansion starts with the first rule.
Invoke(c) ==
    /\ pc \in {"idle", "expanded", "rejected"}
    /\ Len(unit) < MaxExpansions
    /\ call' = c
    /\ input' = c
    /\ pc' = "rule1"
    /\ items' = <<>>
    /\ fired' = <<>>
    /\ inst' = NoInst
    /\ result' = NoResult
    /\ UNCHANGED unit

\* Rule1 naming the struct after a counter of the expansions made so far.
Rule1Counting ==
    /\ pc = "rule1"
    /\ Match1(input) # {}
    /\ LET b == CHOOSE q \in Match1(input) : TRUE
           m == [b EXCEPT !.i = IF Len(unit) < 2 THEN b.i ELSE b.i \o "_2"]
       IN /\ items' = Transcribe1(m)
          /\ unit' = Append(unit, Finished(call, "expanded", Transcribe1(m)))
    /\ fired' = Append(fired, 1)
    /\ pc' = "expanded"
    /\ UNCHANGED <<call, input, inst, result>>

\* The first rule matches: its three items are emitted.
Rule1 ==
    /\ pc = "rule1"
    /\ Match1(input) # {}
    /\ LET m == CHOOSE b \in Match1(input) : TRUE
       IN /\ items' = Transcribe1(m)
          /\ unit' = Append(unit, Finished(call, "expanded", Transcribe1(m)))
    /\ fired' = Append(fired, 1)
    /\ pc' = "expanded"
    /\ UNCHANGED <<call, input, inst, result>>

\* The first rule does not match: the second is tried.
Rule1Fails ==
    /\ pc = "rule1"
    /\ Match1(input) = {}
    /\ pc' = "rule2"
    /\ UNCHANGED <<call, input, items, fired, unit, inst, result>>

\* The second rule matches: the invocation it transcribes is expanded in turn.
Rule2 ==
    /\ pc = "rule2"
    /\ Match2(input) # {}
    /\ Len(fired) < MaxDepth
    /\ input' = Transcribe2(CHOOSE b \in Match2(input) : TRUE)
    /\ fired' = Append(fired, 2)
    /\ pc' = "rule1"
    /\ UNCHANGED <<call, items, unit, inst, result>>

\* No rule matches: a compile error, nothing is emitted.
NoRule ==
    /\ pc = "rule2"
    /\ Match2(input) = {}
    /\ pc' = "rejected"
    /\ items' = <<>>
    /\ unit' = Append(unit, Finished(call, "rejected", <<>>))
    /\ UNCHANGED <<call, input, fired, inst, result>>

\* User code calls the generated constructor: $i::new(args).
Construct(args) ==
    /\ pc = "expanded"
    /\ Compiles(items)
    /\ ~inst.made
    /\ inst' = [made |-> TRUE, fields |-> NameSeq(items[1].fields),
                args |-> args, val |-> New(items, args)]
    /\ UNCHANGED <<call, input, pc, items, fired, unit, result>>

\* User code calls a method of the behaviour block on the instance.
CallMethod(m) ==
    /\ pc = "expanded"
    /\ inst.made
    /\ ~result.called
    /\ Range(m.reads) \subseteq Range(inst.fields)
    /\ result' = [called |-> TRUE, method |-> m.name,
                  val |-> Join([k \in 1..Len(m.reads) |-> FieldOf(inst, m.reads[k])])]
    /\ UNCHANGED <<call, input, pc, items, fired, unit, inst>>

Next ==
    \/ \E c \in Pool : Invoke(c)
    \/ Rule1
    \/ Rule1Fails
    \/ Rule2
    \/ NoRule
    \/ \E args \in (IF pc = "expanded" /\ Compiles(items)
                    THEN ArgTuples(CtorOf(items).params) ELSE {}) : Construct(args)
    \/ \E m \in (IF pc = "expanded" /\ Len(items) = 3 THEN Methods(items) ELSE {}) :
          CallMethod(m)

Spec == Init /\ [][Next]_vars

TypeOK ==
    /\ pc \in {"idle", "rule1", "rule2", "expanded", "rejected"}
    /\ Len(unit) <= MaxExpansions
    /\ Len(fired) <= MaxDepth

\* ------------------------------------------- what an invocation says
\* The descriptor an invocation spells out, read off the positions of its
\* tokens: the name first, then one pair for every colon, name and type two
\* tokens apart, and the block if the last token is a group.
At(c, p) == IF p \in 1..Len(c) THEN c[p] ELSE Comma
NumPairs(c) == Cardinality({p \in 1..Len(c) : c[p] = Colon})
EndsWithBlock(c) == c # <<>> /\ IsGroup(c[Len(c)])
Described(c) ==
    [i |-> At(c, 1).s,
     fields |-> [k \in 1..NumPairs(c) |-> Field(At(c, 4 * k - 1).s, At(c, 4 * k + 1).s)],
     hasBlock |-> EndsWithBlock(c),
     block |-> IF EndsWithBlock(c) THEN c[Len(c)].b ELSE <<>>]

\* c is written in one of the two shapes: a name, a comma, pairs separated
\* by commas and, for the first shape, a comma and a block.
InShape(c) == IsIdent(At(c, 1)) /\ c = Render(Described(c))
ShapeA(c) == InShape(c) /\ EndsWithBlock(c)
ShapeB(c) == InShape(c) /\ ~EndsWithBlock(c)

Done == pc \in {"expanded", "rejected"}

CardNameId ==
    <<Ident("Card"), Comma, Ident("name"), Colon, Ident("String"), Comma,
      Ident("id"), Colon, Ident("String")>>

\* ---------------------------------------------------------------- claims
\* C1: an invocation without a block expands to exactly what the same
\* invocation with an explicit empty block expands to (same struct, same
\* fields in order, same constructor, same empty extra impl), and the
\* block-less rule emits no item of its own.
C1_BlocklessEqualsEmptyBlock ==
    /\ (fired # <<>> /\ fired[1] = 2 /\ pc # "expanded") => items = <<>>
    /\ (pc = "expanded" /\ fired # <<>> /\ fired[1] = 2) =>
          /\ ~EndsWithBlock(call)
          /\ Match1(call \o <<Comma, Group(<<>>)>>) # {}
          /\ items = Transcribe1(CHOOSE b \in Match1(call \o <<Comma, Group(<<>>)>>) : TRUE)

C1_Witness ==
    /\ pc = "expanded"
    /\ fired = <<2, 1>>
    /\ Len(items[1].fields) = 2
    /\ items[1].fields[1].ty # items[1].fields[2].ty

\* C2: the constructor called with (v1, ..., vn) returns an instance whose
\* i-th field, the i-th field written in the invocation, holds vi; for
\* (Card, name: String, id: String) and ("Robert", "12345"), name is "Robert"
\* and id is "12345".
C2_ConstructorSetsFields ==
    inst.made =>
        /\ Len(inst.val) = NumPairs(call)
        /\ Len(inst.args) = NumPairs(call)
        /\ \A k \in 1..NumPairs(call) :
              /\ inst.fields[k] = Described(call).fields[k].name
              /\ inst.val[k] = inst.args[k]
        /\ (Described(call).fields = Described(CardNameId).fields
              /\ inst.args = <<"Robert", "12345">>) =>
              FieldOf(inst, "name") = "Robert" /\ FieldOf(inst, "id") = "12345"

C2_Witness ==
    /\ inst.made
    /\ call = CardNameId
    /\ inst.args = <<"Robert", "12345">>
    /\ inst.val = <<"Robert", "12345">>

\* C3: in both shapes the fields of the generated struct and the parameters
\* of the generated constructor are the pairs of the invocation, name and
\* type, position by position.
C3_OrderPreserved ==
    (pc = "expanded" /\ (ShapeA(call) \/ ShapeB(call))) =>
        /\ Len(items[1].fields) = NumPairs(call)
        /\ Len(CtorOf(items).params) = NumPairs(call)
        /\ \A k \in 1..NumPairs(call) :
              /\ items[1].fields[k].name = Described(call).fields[k].name
              /\ items[1].fields[k].ty = Described(call).fields[k].ty
              /\ CtorOf(items).params[k] = Described(call).fields[k]

C3_Witness ==
    /\ pc = "expanded"
    /\ ShapeB(call)
    /\ NameSeq(items[1].fields) = <<"x", "name", "id">>
    /\ NameSeq(CtorOf(items).params) = <<"x", "name", "id">>
    /\ items[1].fields[1].ty = "u8"
    /\ items[1].fields[2].ty = "String"

\* C4: the definitions of a behaviour block are attached unchanged, in
\* order, as the members of an impl of the type placed after the struct and
\* the constructor, and a block method reading fields of self sees the
\* constructor's arguments: the method joining name and id returns
\* "Robert, 12345" on Card::new("Robert", "12345").
C4_BlockAttached ==
    /\ (pc = "expanded" /\ fired = <<1>>) =>
          /\ EndsWithBlock(call)
          /\ Len(items) = 3
          /\ items[1].kind = "struct"
          /\ items[2].kind = "impl" /\ NameSeq(items[2].members) = <<"new">>
          /\ items[3] = Item("impl", "", call[1].s, <<>>, call[Len(call)].b)
    /\ result.called =>
          /\ \E m \in Range(call[Len(call)].b) :
                /\ m.name = result.method
                /\ result.val =
                     Join([k \in 1..Len(m.reads) |->
                            inst.args[CHOOSE j \in 1..NumPairs(call) :
                                        Described(call).fields[j].name = m.reads[k]]])
          /\ (result.method = "become_a_string_to_work"
                /\ inst.args = <<"Robert", "12345">>
                /\ NameSeq(Described(call).fields) = <<"name", "id">>) =>
                result.val = "Robert, 12345"

C4_Witness ==
    /\ result.called
    /\ result.method = "become_a_string_to_work"
    /\ call = CardNameId \o <<Comma, Group(<<BecomeAString>>)>>
    /\ inst.args = <<"Robert", "12345">>
    /\ result.val = "Robert, 12345"

\* C5 as stated: every invocation the macro accepts has at least one
\* (field name, field type) pair.
C5_AcceptedHasAField ==
    pc = "expanded" => NumPairs(call) >= 1 /\ Len(items[1].fields) >= 1

\* C5 as amended: an accepted invocation has zero or more pairs, and the
\* struct has exactly the pairs written; a name followed only by a comma is
\* accepted by the block-less rule, a name, an empty field list and a block is
\* accepted by the with-block rule, both giving a struct without fields and a
\* constructor without parameters; a lone name, and a name, one comma and a
\* block, are not accepted.
C5_AcceptedHasZeroOrMoreFields ==
    /\ pc = "expanded" => Len(items[1].fields) = NumPairs(call)
    /\ (Done /\ Len(call) = 2 /\ IsIdent(call[1]) /\ call[2] = Comma) =>
          /\ pc = "expanded" /\ fired = <<2, 1>>
          /\ items[1].fields = <<>> /\ CtorOf(items).params = <<>>
    /\ (Done /\ Len(call) = 4 /\ IsIdent(call[1]) /\ call[2] = Comma
             /\ call[3] = Comma /\ IsGroup(call[4])) =>
          /\ pc = "expanded" /\ fired = <<1>>
          /\ items[1].fields = <<>> /\ CtorOf(items).params = <<>>
    /\ (Done /\ Len(call) = 1) => pc = "rejected"
    /\ (Done /\ Len(call) = 3 /\ call[2] = Comma /\ IsGroup(call[3])) => pc = "rejected"

C5_Witness ==
    /\ pc = "expanded"
    /\ call = <<Ident("Card"), Comma>>
    /\ items[1].fields = <<>>

C7_AllGeneratedPublic ==
    pc = "expanded" =>
        /\ items[1].vis = "pub"
        /\ \A k \in 1..Len(items[1].fields) : items[1].fields[k].vis = "pub"
        /\ CtorOf(items).vis = "pub"
        /\ Len(items[3].members) = Len(Described(call).block)
        /\ \A k \in 1..Len(items[3].members) :
              items[3].members[k].vis = Described(call).block[k].vis

C7_Witness ==
    /\ pc = "expanded"
    /\ Len(items[1].fields) = 3
    /\ items[1].fields[3].vis = "pub"
    /\ Len(items[3].members) = 2
    /\ items[3].members[1].vis = ""
    /\ items[3].members[2].vis = "pub"

\* C8: with an empty block, written as {} or supplied by the block-less
\* rule, the type has exactly one member, the constructor new, and the extra
\* impl is empty.
C8_EmptyBlockAddsNothing ==
    (pc = "expanded" /\ Described(call).block = <<>>) =>
        /\ items[3].kind = "impl"
        /\ items[3].members = <<>>
        /\ NameSeq(items[2].members \o items[3].members) = <<"new">>

C8_Witness ==
    /\ pc = "expanded"
    /\ fired = <<1>>
    /\ call[Len(call)] = Group(<<>>)
    /\ NumPairs(call) = 2
    /\ items[3].members = <<>>

C10_BoundedReinvocation ==
    /\ fired \in {<<>>, <<1>>, <<2>>, <<2, 1>>}
    /\ pc = "expanded" => fired \in {<<1>>, <<2, 1>>}
    /\ fired = <<2>> => pc = "rule1" /\ Match1(input) # {}
    /\ (pc = "expanded" /\ EndsWithBlock(call)) => fired = <<1>>
    /\ (pc = "expanded" /\ ~EndsWithBlock(call)) => fired = <<2, 1>>

C10_Witness ==
    /\ pc = "expanded"
    /\ fired = <<2, 1>>
    /\ NumPairs(call) = 3

====
